---- MODULE Spec2Model ----
(***************************************************************************)
(* BusPulse (src/srcApp.js): the React client that keeps the fleet list    *)
(* `buses` in step with the live_fleet table of the backend, draws it on   *)
(* a LiveMap and, in the driver role, writes the phone's position back.    *)
(*                                                                         *)
(* The model holds the backend table and the realtime channel as far as    *)
(* the client observes them, the App component's state and effects, and    *)
(* the mounted LiveMap's marker table.  One action is one handler of the   *)
(* client together with the render and the effects React runs after it,    *)
(* or one write of some participant to the table.                          *)
(***************************************************************************)
EXTENDS Integers, Sequences, FiniteSets

\* ------------------------------------------------------------------ bounds

\* Writes to live_fleet the model follows (inserts, updates, deletes, GPS writes).
MaxOps == 2
\* Watches navigator.geolocation holds at once before the model stops registering.
MaxWatch == 2

\* ------------------------------------------------------------- value sets

\* The ids of live_fleet rows, in the order select('*') lists them.
IdOrder == <<"b1", "b2">>
Ids == {IdOrder[i] : i \in DOMAIN IdOrder}
Routes == {"15", "27"}
\* Timestamps (updated_at, commit_timestamp): an older and a newer one.
Times == {1, 2}
\* Positions a row or a GPS sample can hold.
Points == {[lat |-> 0, lng |-> 0], [lat |-> 1, lng |-> 2]}

\* What reading `id` of the empty object `{}` gives.
NoId == "undefined"
EmptyRecord == [id |-> NoId]
\* A payload field that is not there at all: reading a field of it throws.
Undefined == [undefined |-> TRUE]

\* A row of live_fleet (crowd_level and last_stop play no part in any handler).
Row(id, route, pt, active, t) ==
    [id |-> id, route_no |-> route, lat |-> pt.lat, lng |-> pt.lng,
     is_active |-> active, updated_at |-> t]

\* The two rows the setup script inserts.
SampleData ==
    {Row("b1", "15", [lat |-> 0, lng |-> 0], TRUE, 1),
     Row("b2", "27", [lat |-> 1, lng |-> 2], TRUE, 1)}

VARIABLES
    table,        \* live_fleet: a set of rows, one per id (PRIMARY KEY)
    dbOps,        \* number of writes made to live_fleet so far
    queue,        \* change events the channel has still to deliver to the client
    channel,      \* "joining" | "joined" | "removed"
    fetch,        \* "pending" | "responded" | "done": the select('*') of fetchBuses
    fetchData,    \* the response in flight: [ok, data]
    mounted,      \* the App component is mounted
    view,         \* useState('roleSelection')
    buses,        \* useState([]): the fleet list
    isTracking,   \* useState(false)
    watchId,      \* the GPS effect's closure variable; 0 is undefined
    watches,      \* watch ids registered with navigator.geolocation
    mapCurrent,   \* LiveMap: map.current is set
    markers,      \* LiveMap: markers.current, id -> [lng, lat]
    lastRun,      \* ids the reconciliation run of this step created, moved, removed
    last,         \* history: the last payload handled, what the store held for its
                  \* id, and whether a handler or a render has thrown
    deletedAt     \* history: per id, the greatest timestamp of a DELETE handled (0: none)

vars == <<table, dbOps, queue, channel, fetch, fetchData, mounted, view, buses,
          isTracking, watchId, watches, mapCurrent, markers, lastRun,
          last, deletedAt>>

dbVars == <<table, dbOps>>
fetchVars == <<fetch, fetchData>>
gpsVars == <<watchId, watches>>
mapVars == <<mapCurrent, markers>>
histVars == <<last, deletedAt>>

\* markers.current of a LiveMap that has just mounted.
EmptyMarkers == [id \in {} |-> [lng |-> 0, lat |-> 0]]
\* A step in which no reconciliation effect ran.
NoRun == [created |-> {}, updated |-> {}, removed |-> {}]
\* No payload handled yet.
NoPayload ==
    [eventType |-> "NONE", new |-> EmptyRecord, old |-> EmptyRecord,
     commit_timestamp |-> 0]

\* ----------------------------------------------------------- the backend

RowIds(rows) == {r.id : r \in rows}

\* select('*'): the rows in id order.
RECURSIVE SelectAll(_, _)
SelectAll(rows, i) ==
    IF i > Len(IdOrder) THEN <<>>
    ELSE (IF IdOrder[i] \in RowIds(rows)
          THEN <<CHOOSE r \in rows : r.id = IdOrder[i]>>
          ELSE <<>>) \o SelectAll(rows, i + 1)

\* The payloads of the postgres_changes stream.
InsertEvent(row) ==
    [eventType |-> "INSERT", new |-> row, old |-> EmptyRecord,
     commit_timestamp |-> row.updated_at]
UpdateEvent(row) ==
    [eventType |-> "UPDATE", new |-> row, old |-> [id |-> row.id],
     commit_timestamp |-> row.updated_at]
DeleteEvent(id, t) ==
    [eventType |-> "DELETE", new |-> EmptyRecord, old |-> [id |-> id],
     commit_timestamp |-> t]

\* The channel streams a change only to a client that has joined.
Publish(events) == IF channel = "joined" THEN queue \o events ELSE queue

\* Some participant inserts a row (is_active DEFAULT true).
DbInsert(id, route, t) ==
    /\ mounted /\ dbOps < MaxOps
    /\ id \notin RowIds(table)
    /\ LET row == Row(id, route, [lat |-> 0, lng |-> 0], TRUE, t)
       IN  /\ table' = table \cup {row}
           /\ queue' = Publish(<<InsertEvent(row)>>)
    /\ dbOps' = dbOps + 1
    /\ UNCHANGED <<channel, fetchVars, mounted, view, buses, isTracking, gpsVars,
                   mapVars, histVars>>
    /\ lastRun' = NoRun

\* Another driver's client moves its row.
DbMove(id, pt, t) ==
    /\ mounted /\ dbOps < MaxOps
    /\ \E old \in table :
          /\ old.id = id
          /\ <<old.lat, old.lng>> # <<pt.lat, pt.lng>>
          /\ LET row == [old EXCEPT !.lat = pt.lat, !.lng = pt.lng, !.updated_at = t]
             IN  /\ table' = (table \ {old}) \cup {row}
                 /\ queue' = Publish(<<UpdateEvent(row)>>)
    /\ dbOps' = dbOps + 1
    /\ UNCHANGED <<channel, fetchVars, mounted, view, buses, isTracking, gpsVars,
                   mapVars, histVars>>
    /\ lastRun' = NoRun

\* A row is taken out of service: is_active := false.
DbDeactivate(id) ==
    /\ mounted /\ dbOps < MaxOps
    /\ \E old \in table :
          /\ old.id = id /\ old.is_active
          /\ LET row == [old EXCEPT !.is_active = FALSE]
             IN  /\ table' = (table \ {old}) \cup {row}
                 /\ queue' = Publish(<<UpdateEvent(row)>>)
    /\ dbOps' = dbOps + 1
    /\ UNCHANGED <<channel, fetchVars, mounted, view, buses, isTracking, gpsVars,
                   mapVars, histVars>>
    /\ lastRun' = NoRun

\* A bus is put on another route: route_no := route.
DbReassign(id, route) ==
    /\ mounted /\ dbOps < MaxOps
    /\ \E old \in table :
          /\ old.id = id /\ old.route_no # route
          /\ LET row == [old EXCEPT !.route_no = route]
             IN  /\ table' = (table \ {old}) \cup {row}
                 /\ queue' = Publish(<<UpdateEvent(row)>>)
    /\ dbOps' = dbOps + 1
    /\ UNCHANGED <<channel, fetchVars, mounted, view, buses, isTracking, gpsVars,
                   mapVars, histVars>>
    /\ lastRun' = NoRun

\* A row is deleted at time t.
DbDelete(id, t) ==
    /\ mounted /\ dbOps < MaxOps
    /\ \E old \in table :
          /\ old.id = id
          /\ table' = table \ {old}
    /\ queue' = Publish(<<DeleteEvent(id, t)>>)
    /\ dbOps' = dbOps + 1
    /\ UNCHANGED <<channel, fetchVars, mounted, view, buses, isTracking, gpsVars,
                   mapVars, histVars>>
    /\ lastRun' = NoRun

\* ----------------------------------------------------------- the LiveMap

\* The views that render a LiveMap.
ViewHasMap(v) == v \in {"passenger", "driverDashboard", "admin"}

\* The `buses` prop each view hands to its LiveMap.
IsRoute15(b) == b.route_no = "15"
BusesProp(v, list) ==
    IF v = "driverDashboard" THEN SelectSeq(list, IsRoute15) ELSE list

\* The stale-marker test with a comparison that never matches (a key of another
\* type than bus.id): every marker counts as stale.
StaleMarkersNoMatch(m, prop) == DOMAIN m

\* Object.keys(markers.current).forEach: the markers whose id is no longer listed.
StaleMarkers(m, prop) ==
    {id \in DOMAIN m : ~ \E i \in DOMAIN prop : prop[i].id = id}

\* buses.forEach: move the marker of a listed bus, or create one.
RECURSIVE UpdateOrAdd(_, _, _)
UpdateOrAdd(prop, i, st) ==
    IF i > Len(prop) THEN st
    ELSE LET bus == prop[i]
             at  == [lng |-> bus.lng, lat |-> bus.lat]
         IN  IF bus.id \in DOMAIN st.markers
             THEN UpdateOrAdd(prop, i + 1,
                      [st EXCEPT !.markers[bus.id] = at,
                                 !.updated = @ \cup {bus.id}])
             ELSE UpdateOrAdd(prop, i + 1,
                      [st EXCEPT !.markers = [id \in DOMAIN @ \cup {bus.id} |->
                                                 IF id = bus.id THEN at ELSE @[id]],
                                 !.created = @ \cup {bus.id}])

\* One run of the reconciliation effect; the guard is `if (!map.current) return`.
Reconcile(ready, m, prop) ==
    IF ~ready THEN [markers |-> m, created |-> {}, updated |-> {}, removed |-> {}]
    ELSE LET gone == StaleMarkers(m, prop)
             kept == [id \in DOMAIN m \ gone |-> m[id]]
         IN  UpdateOrAdd(prop, 1,
                 [markers |-> kept, created |-> {}, updated |-> {}, removed |-> gone])

\* The render that follows a state change, and the LiveMap effects after it.  A
\* view without a map unmounts the LiveMap; a LiveMap that mounts starts with
\* empty refs, and its first effect sets map.current before the second runs.
Render(v, list) ==
    IF ViewHasMap(v)
    THEN LET run == Reconcile(TRUE, IF mapCurrent THEN markers ELSE EmptyMarkers,
                              BusesProp(v, list))
         IN  /\ mapCurrent' = TRUE
             /\ markers' = run.markers
             /\ lastRun' = [created |-> run.created, updated |-> run.updated,
                            removed |-> run.removed]
    ELSE /\ mapCurrent' = FALSE
         /\ markers' = EmptyMarkers
         /\ lastRun' = NoRun

\* ------------------------------------------------- the fleet subscription

\* The handler with an UPDATE branch that keeps a stored entry newer than the payload.
HandlerNewestWins(prev, payload) ==
    IF payload.eventType = "INSERT" THEN Append(prev, payload.new)
    ELSE IF payload.eventType = "UPDATE"
    THEN [i \in DOMAIN prev |->
             IF prev[i].id = payload.new.id /\ prev[i].updated_at <= payload.new.updated_at
             THEN payload.new ELSE prev[i]]
    ELSE IF payload.eventType = "DELETE"
    THEN LET Other(b) == b.id # payload.old.id IN SelectSeq(prev, Other)
    ELSE prev

\* The handler with an UPDATE branch that appends the row of an id it does not hold.
HandlerUpsert(prev, payload) ==
    IF payload.eventType = "INSERT" THEN Append(prev, payload.new)
    ELSE IF payload.eventType = "UPDATE"
    THEN IF \E i \in DOMAIN prev : prev[i].id = payload.new.id
         THEN [i \in DOMAIN prev |->
                  IF prev[i].id = payload.new.id THEN payload.new ELSE prev[i]]
         ELSE Append(prev, payload.new)
    ELSE IF payload.eventType = "DELETE"
    THEN LET Other(b) == b.id # payload.old.id IN SelectSeq(prev, Other)
    ELSE prev

\* The handler with an INSERT branch that copies the list and forgets the new row.
HandlerInsertLost(prev, payload) ==
    IF payload.eventType = "INSERT" THEN prev
    ELSE IF payload.eventType = "UPDATE"
    THEN [i \in DOMAIN prev |->
             IF prev[i].id = payload.new.id THEN payload.new ELSE prev[i]]
    ELSE IF payload.eventType = "DELETE"
    THEN LET Other(b) == b.id # payload.old.id IN SelectSeq(prev, Other)
    ELSE prev

\* The postgres_changes handler: the updater it passes to setBuses.
Handler(prev, payload) ==
    IF payload.eventType = "INSERT" THEN Append(prev, payload.new)
    ELSE IF payload.eventType = "UPDATE"
    THEN [i \in DOMAIN prev |->
             IF prev[i].id = payload.new.id THEN payload.new ELSE prev[i]]
    ELSE IF payload.eventType = "DELETE"
    THEN LET Other(b) == b.id # payload.old.id IN SelectSeq(prev, Other)
    ELSE prev

\* A cleanup that clears nothing.
ClearWatchSkipped(id, registered) == registered

\* The effect's cleanup: `if (watchId) navigator.geolocation.clearWatch(watchId)`.
ClearWatch(id, registered) == IF id # 0 THEN registered \ {id} ELSE registered

\* The list holds an entry that is undefined.
HasUndefined(list) == \E i \in DOMAIN list : list[i] = Undefined

\* The updater throws a TypeError: the callback of map or filter reads `.id` of an
\* undefined entry or of an undefined payload.new / payload.old.  On an empty
\* list the callback never runs, and the INSERT branch reads no field.
HandlerRaises(prev, payload) ==
    /\ prev # <<>>
    /\ \/ payload.eventType = "UPDATE" /\ (payload.new = Undefined \/ HasUndefined(prev))
       \/ payload.eventType = "DELETE" /\ (payload.old = Undefined \/ HasUndefined(prev))

\* The render or the LiveMap effect throws: each view with a map reads a field of
\* every entry (bus.id, b.route_no).
RenderRaises(v, list) == ViewHasMap(v) /\ HasUndefined(list)

\* React unmounts the tree: the cleanups of both effects run and the component's
\* state and the LiveMap are discarded.
Teardown ==
    /\ mounted' = FALSE
    /\ channel' = "removed"
    /\ queue' = <<>>
    /\ watches' = ClearWatch(watchId, watches)
    /\ watchId' = 0
    /\ view' = "roleSelection" /\ buses' = <<>> /\ isTracking' = FALSE
    /\ mapCurrent' = FALSE /\ markers' = EmptyMarkers /\ lastRun' = NoRun

\* The channel's join is acknowledged: changes stream from now on.
ChannelJoined ==
    /\ mounted /\ channel = "joining"
    /\ channel' = "joined"
    /\ UNCHANGED <<dbVars, queue, fetchVars, mounted, view, buses, isTracking,
                   gpsVars, mapVars, histVars>>
    /\ lastRun' = NoRun

\* The backend answers select('*') with the rows it holds now, or with an error.
FetchRespond(ok) ==
    /\ fetch = "pending"
    /\ fetch' = "responded"
    /\ fetchData' = [ok |-> ok, data |-> IF ok THEN SelectAll(table, 1) ELSE <<>>]
    /\ UNCHANGED <<dbVars, queue, channel, mounted, view, buses, isTracking,
                   gpsVars, mapVars, histVars>>
    /\ lastRun' = NoRun

\* fetchBuses resumes after its await: `if (data) setBuses(data)`.
FetchComplete ==
    /\ fetch = "responded"
    /\ fetch' = "done"
    /\ fetchData' = [ok |-> FALSE, data |-> <<>>]
    /\ IF mounted /\ fetchData.ok
       THEN /\ buses' = fetchData.data
            /\ Render(view, fetchData.data)
       ELSE /\ UNCHANGED <<buses, mapVars>>
            /\ lastRun' = NoRun
    /\ UNCHANGED <<dbVars, queue, channel, mounted, view, isTracking, gpsVars,
                   histVars>>

Max(a, b) == IF a >= b THEN a ELSE b

\* The id a payload is about: new.id of an INSERT or UPDATE, old.id of a DELETE.
PayloadId(payload) ==
    LET record == IF payload.eventType = "DELETE" THEN payload.old ELSE payload.new
    IN  IF record = Undefined THEN NoId ELSE record.id

\* The updated_at of the store's entries for an id (none: the id is absent).
StoredAt(list, id) ==
    {list[i].updated_at :
        i \in {j \in DOMAIN list : list[j] # Undefined /\ list[j].id = id}}

\* The channel delivers the next change event to the handler.  An error thrown
\* by the updater or by the render that follows it unmounts the tree.
Deliver ==
    /\ mounted /\ channel = "joined" /\ queue # <<>>
    /\ LET payload == Head(queue)
       IN  IF HandlerRaises(buses, payload)
              \/ RenderRaises(view, Handler(buses, payload))
           THEN /\ Teardown
                /\ last' = [payload |-> payload,
                            before |-> StoredAt(buses, PayloadId(payload)),
                            raised |-> TRUE]
                /\ UNCHANGED deletedAt
           ELSE /\ buses' = Handler(buses, payload)
                /\ Render(view, Handler(buses, payload))
                /\ last' = [payload |-> payload,
                            before |-> StoredAt(buses, PayloadId(payload)),
                            raised |-> last.raised]
                /\ deletedAt' = IF payload.eventType = "DELETE"
                                   /\ PayloadId(payload) \in Ids
                                THEN [deletedAt EXCEPT ![payload.old.id] =
                                          Max(@, payload.commit_timestamp)]
                                ELSE deletedAt
                /\ queue' = Tail(queue)
                /\ UNCHANGED <<channel, mounted, view, isTracking, gpsVars>>
    /\ UNCHANGED <<dbVars, fetchVars>>

\* ------------------------------------------------------ the GPS tracking

\* The effect's body under the new [isTracking, view].
ShouldWatch(tracking, v) == tracking /\ v = "driverDashboard"

\* watchPosition returns an implementation-defined id greater than zero that
\* names no other registered watch: here the least one.
NewWatchId(registered) ==
    CHOOSE id \in 1..MaxWatch :
        /\ id \notin registered
        /\ \A other \in 1..(id - 1) : other \in registered

\* React runs the cleanup of the last run, then the effect anew.
GpsEffect(tracking, v) ==
    LET cleared == ClearWatch(watchId, watches)
    IN  IF ShouldWatch(tracking, v)
        THEN /\ Cardinality(cleared) < MaxWatch
             /\ watchId' = NewWatchId(cleared)
             /\ watches' = cleared \cup {NewWatchId(cleared)}
        ELSE /\ watchId' = 0
             /\ watches' = cleared

\* The rows the callback's update matches: .eq('route_no', '15').
WriteTargets(rows) == {r \in rows : r.route_no = "15"}

\* The watchPosition success callback: one update of live_fleet.
DriverWrite(pt, t) ==
    /\ mounted /\ dbOps < MaxOps
    /\ watches # {}
    /\ LET hit     == WriteTargets(table)
           Moved(r) == [r EXCEPT !.lat = pt.lat, !.lng = pt.lng, !.updated_at = t]
           written == {Moved(r) : r \in hit}
           events  == SelectAll(written, 1)
       IN  /\ table' = (table \ hit) \cup written
           /\ queue' = Publish([i \in DOMAIN events |-> UpdateEvent(events[i])])
    /\ dbOps' = dbOps + 1
    /\ UNCHANGED <<channel, fetchVars, mounted, view, buses, isTracking, gpsVars,
                   mapVars, histVars>>
    /\ lastRun' = NoRun

\* ------------------------------------------------------------ the buttons

\* A click sets view and isTracking; the render and both effects follow.
\* An error thrown by the render unmounts the tree.
SetState(v, tracking) ==
    IF RenderRaises(v, buses)
    THEN /\ Teardown
         /\ last' = [last EXCEPT !.raised = TRUE]
         /\ UNCHANGED <<dbVars, fetchVars, deletedAt>>
    ELSE /\ view' = v
         /\ isTracking' = tracking
         /\ IF v # view \/ tracking # isTracking
            THEN GpsEffect(tracking, v)
            ELSE UNCHANGED gpsVars
         /\ Render(v, buses)
         /\ UNCHANGED <<dbVars, queue, channel, fetchVars, mounted, buses, histVars>>

SelectPassenger ==
    /\ mounted /\ view = "roleSelection"
    /\ SetState("passenger", isTracking)

SelectOperator ==
    /\ mounted /\ view = "roleSelection"
    /\ SetState("driverDashboard", TRUE)

SelectAdmin ==
    /\ mounted /\ view = "roleSelection"
    /\ SetState("admin", isTracking)

\* The back button of the passenger view, the close button of the admin view.
Back ==
    /\ mounted /\ view \in {"passenger", "admin"}
    /\ SetState("roleSelection", isTracking)

\* Break / Resume.
ToggleBreak ==
    /\ mounted /\ view = "driverDashboard"
    /\ SetState(view, ~isTracking)

EndTrip ==
    /\ mounted /\ view = "driverDashboard"
    /\ SetState("roleSelection", FALSE)

\* The App unmounts: the cleanups of both effects run, and React discards the
\* component's state and the LiveMap with it.
Unmount ==
    /\ mounted
    /\ Teardown
    /\ UNCHANGED <<dbVars, fetchVars, histVars>>

\* ------------------------------------------------------- the specification

\* The App has mounted: fetchBuses is in flight and the channel is joining.
Init ==
    /\ table = SampleData
    /\ dbOps = 0
    /\ queue = <<>>
    /\ channel = "joining"
    /\ fetch = "pending"
    /\ fetchData = [ok |-> FALSE, data |-> <<>>]
    /\ mounted = TRUE
    /\ view = "roleSelection"
    /\ buses = <<>>
    /\ isTracking = FALSE
    /\ watchId = 0
    /\ watches = {}
    /\ mapCurrent = FALSE
    /\ markers = EmptyMarkers
    /\ lastRun = NoRun
    /\ last = [payload |-> NoPayload, before |-> {}, raised |-> FALSE]
    /\ deletedAt = [id \in Ids |-> 0]

Next ==
    \/ \E pt \in Points, t \in Times : DriverWrite(pt, t)
    \/ \E id \in Ids, route \in Routes, t \in Times : DbInsert(id, route, t)
    \/ \E id \in Ids, pt \in Points, t \in Times : DbMove(id, pt, t)
    \/ \E id \in Ids : DbDeactivate(id)
    \/ \E id \in Ids, route \in Routes : DbReassign(id, route)
    \/ \E id \in Ids, t \in Times : DbDelete(id, t)
    \/ ChannelJoined
    \/ \E ok \in BOOLEAN : FetchRespond(ok)
    \/ FetchComplete
    \/ Deliver
    \/ SelectPassenger
    \/ SelectOperator
    \/ SelectAdmin
    \/ Back
    \/ ToggleBreak
    \/ EndTrip
    \/ Unmount

Spec == Init /\ [][Next]_vars

\* ------------------------------------------- the channel's payloads at large
\* live_fleet puts no bound on lat and lng, and the handler takes whatever
\* payload the channel hands it.

OutOfRange == [lat |-> 91, lng |-> 181]
InRange(pt) == pt.lat \in -90..90 /\ pt.lng \in -180..180

\* The payload is a malformed change event.
Malformed(payload) ==
    \/ /\ payload.eventType \in {"INSERT", "UPDATE"}
       /\ IF payload.new = Undefined
          THEN TRUE
          ELSE payload.new.id = NoId
               \/ ~InRange([lat |-> payload.new.lat, lng |-> payload.new.lng])
    \/ payload.eventType = "DELETE" /\ payload.old = Undefined

MalformedPayloads ==
    LET noId  == Row(NoId, "15", [lat |-> 0, lng |-> 0], TRUE, 2)
        astray == Row("b1", "15", OutOfRange, TRUE, 2)
    IN  {[eventType |-> "INSERT", new |-> Undefined, old |-> EmptyRecord,
          commit_timestamp |-> 2],
         [eventType |-> "UPDATE", new |-> Undefined, old |-> EmptyRecord,
          commit_timestamp |-> 2],
         [eventType |-> "DELETE", new |-> EmptyRecord, old |-> Undefined,
          commit_timestamp |-> 2],
         InsertEvent(noId), UpdateEvent(noId),
         InsertEvent(astray), UpdateEvent(astray)}

\* The channel hands the handler a malformed payload.
ChannelMalformed(payload) ==
    /\ mounted /\ channel = "joined" /\ dbOps < MaxOps
    /\ queue' = Append(queue, payload)
    /\ dbOps' = dbOps + 1
    /\ lastRun' = NoRun
    /\ UNCHANGED <<table, channel, fetchVars, mounted, view, buses, isTracking,
                   gpsVars, mapVars, histVars>>

NextMalformed ==
    \/ Next
    \/ \E payload \in MalformedPayloads : ChannelMalformed(payload)

SpecMalformed == Init /\ [][NextMalformed]_vars

\* ------------------------------------------------------------- the claims

SeqIds(list) == {list[i].id : i \in DOMAIN list}

\* C1: the fleet list holds at most one entry per id.
C1_OneEntryPerId ==
    \A i, j \in DOMAIN buses : buses[i].id = buses[j].id => i = j

\* C2: handling the payload just handled a second time leaves the store as it is.
C2_HandlerIdempotent ==
    [][Deliver => Handler(buses', Head(queue)) = buses']_vars

\* C3 as stated: an UPDATE for a stored id wins only with the greater timestamp; an
\* UPDATE older than the stored entry's updated_at changes nothing.
C3_NewestTimestampWins ==
    [][(Deliver /\ Head(queue).eventType = "UPDATE") =>
          LET new == Head(queue).new
          IN  /\ Len(buses') = Len(buses)
              /\ \A i \in DOMAIN buses :
                    buses[i].id = new.id =>
                       /\ buses[i].updated_at < new.updated_at => buses'[i] = new
                       /\ buses[i].updated_at > new.updated_at => buses'[i] = buses[i]]_vars

\* C3 as amended: an UPDATE for a stored id replaces every entry of that id by its
\* payload, whatever the two timestamps are: the UPDATE handled last wins.
C3_LastArrivalWins ==
    [][(Deliver /\ Head(queue).eventType = "UPDATE") =>
          LET new == Head(queue).new
          IN  /\ Len(buses') = Len(buses)
              /\ \A i \in DOMAIN buses :
                    buses'[i] = IF buses[i].id = new.id THEN new ELSE buses[i]]_vars

\* An UPDATE older than the stored entry was handled, and the store holds its payload.
C3_Witness ==
    /\ last.payload.eventType = "UPDATE"
    /\ \E t \in last.before : t > last.payload.new.updated_at
    /\ \E i \in DOMAIN buses : buses[i] = last.payload.new

\* C4 as stated: an UPDATE for an id the store does not hold adds that id with the
\* fields of the payload.
C4_UpdateOfAbsentInserts ==
    [][(Deliver /\ Head(queue).eventType = "UPDATE"
          /\ Head(queue).new.id \notin SeqIds(buses)) =>
          \E i \in DOMAIN buses' : buses'[i] = Head(queue).new]_vars

\* C4 as amended: an UPDATE for an id the store does not hold leaves the store as
\* it is, and the id absent.
C4_UpdateOfAbsentIgnored ==
    [][(Deliver /\ Head(queue).eventType = "UPDATE"
          /\ Head(queue).new.id \notin SeqIds(buses)) =>
          /\ buses' = buses
          /\ Head(queue).new.id \notin SeqIds(buses')]_vars

\* An UPDATE for an absent id was handled, and the id is still absent.
C4_Witness ==
    /\ last.payload.eventType = "UPDATE"
    /\ last.before = {}
    /\ last.payload.new.id \notin SeqIds(buses)

\* A payload for an id that is absent since a DELETE with a greater timestamp.
StaleAfterDelete(payload, list) ==
    /\ payload.eventType \in {"INSERT", "UPDATE"}
    /\ payload.new.id \in Ids
    /\ payload.new.id \notin SeqIds(list)
    /\ payload.new.updated_at < deletedAt[payload.new.id]

C6_ProjectionActiveOnly ==
    (ViewHasMap(view) /\ mapCurrent) =>
        LET prop == BusesProp(view, buses)
            Wanted(b) == b.is_active /\ (view = "driverDashboard" => b.route_no = "15")
        IN  /\ \A i \in DOMAIN prop : Wanted(prop[i])
            /\ \A i \in DOMAIN buses :
                  Wanted(buses[i]) => \E j \in DOMAIN prop : prop[j] = buses[i]

\* C7: within one mounted LiveMap, an id that has a marker and is in the next
\* `buses` prop keeps its marker: the run neither removes nor creates it.
C7_MarkerKept ==
    [][(mapCurrent /\ mapCurrent' /\ view' = view) =>
          \A id \in DOMAIN markers :
             id \in SeqIds(BusesProp(view', buses')) =>
                /\ id \in DOMAIN markers'
                /\ id \notin lastRun'.created
                /\ id \notin lastRun'.removed]_vars

\* A run repositioned the marker of an id to a position it did not have at creation.
C7_Witness ==
    /\ mapCurrent
    /\ \E id \in DOMAIN markers :
          /\ id \in lastRun.updated
          /\ id \notin lastRun.created
          /\ markers[id] = [lng |-> 2, lat |-> 1]
          /\ last.payload.eventType = "UPDATE"
          /\ last.payload.new.id = id

\* C8: a position write of the driver's callback changes the row of one id, the
\* driver's own: every row of another id stays as it is.
C8_WriteOneRow ==
    [][(\E pt \in Points, t \in Times : DriverWrite(pt, t)) =>
          \E self \in Ids : \A r \in table : r.id # self => r \in table']_vars

\* C9: a watch is registered exactly while isTracking holds in the driver view, at
\* most one at a time, and the channel is removed only by the unmount.
C9_WatchWhileTracking ==
    /\ (watches # {}) <=> (mounted /\ isTracking /\ view = "driverDashboard")
    /\ Cardinality(watches) <= 1
    /\ watches = IF watchId = 0 THEN {} ELSE {watchId}
    /\ (channel = "removed") <=> ~mounted

\* The driver is on a break: the watch is cleared, the channel still there.
C9_Witness ==
    /\ mounted /\ view = "driverDashboard" /\ ~isTracking
    /\ watches = {}
    /\ channel = "joined"

\* C10: no change event is handled before the fetch result has seeded the store,
\* and the fetch result is never written over a store that has handled one.
C10_FetchBeforeEvents ==
    [][/\ Deliver => fetch = "done"
       /\ (FetchComplete /\ mounted /\ fetchData.ok) =>
             last.payload.eventType = "NONE"]_vars

\* C11: handling a malformed change event (an INSERT or UPDATE whose `new` is
\* missing, lacks an id or lies outside [-90,90]x[-180,180], a DELETE whose `old`
\* is missing) never raises and leaves the store unchanged.
C11_MalformedIgnored ==
    [][(Deliver /\ Malformed(Head(queue))) => (buses' = buses /\ ~last'.raised)]_vars

\* C12: after a run of the reconciliation effect the ids with a marker are the ids
\* of the `buses` prop, and the ids the run created, moved and removed are
\* pairwise disjoint.
C12_MarkersMatchProp ==
    mapCurrent =>
        /\ DOMAIN markers = SeqIds(BusesProp(view, buses))
        /\ lastRun.created \cap lastRun.updated = {}
        /\ lastRun.created \cap lastRun.removed = {}
        /\ lastRun.updated \cap lastRun.removed = {}

====
